---- MODULE Spec2Model ----
(***************************************************************************)
(* strawberry.chalice.views.GraphQLView: the adapter that turns one        *)
(* chalice Request into one call of the GraphQL engine and one chalice     *)
(* Response.  One action models one whole call of execute_request.         *)
(*                                                                         *)
(* Python values are modelled as follows.  A dict is a function on its     *)
(* keys.  A header value is a sequence of tokens and `x in value` is token *)
(* membership.  A parsed JSON value is [type, value]. A set of headers on  *)
(* a response is a set of <<name, value>> pairs.                           *)
(***************************************************************************)
EXTENDS Integers, Sequences, FiniteSets, TLC

VARIABLES
    graphiql,               \* self.graphiql
    allow_queries_via_get,  \* self.allow_queries_via_get
    schema,                 \* self._schema
    request,                \* the request of the latest execute_request call
    response,               \* what that call returned
    raised,                 \* the exception that left that call, "none" if it returned
    branch,                 \* the return statement that call ended at
    data_source,            \* where that call took `data` from
    engine_call,            \* the arguments of that call's execute_sync, if any
    executed,               \* what the engine did with them
    temporal,               \* the TemporalResponse of that call's context
    first                   \* the adapter's first call (request, response), and whether
                            \* a later call's resolvers set a status code

vars == <<graphiql, allow_queries_via_get, schema, request, response, raised,
          branch, data_source, engine_call, executed, temporal, first>>

config == <<graphiql, allow_queries_via_get, schema>>

----------------------------------------------------------------------------
(* Requests                                                                *)

Methods == {"GET", "POST", "PUT"}

Absent == "<absent>"

ContentTypes == { <<>>, <<"application/json", "; charset=utf-8">> }

Accepts == { <<>>,
             <<"text/html", ",application/xhtml+xml">>,
             <<"*/*">> }

HeaderSet(name, value) == IF value = <<>> THEN {} ELSE {<<name, value>>}

RequestHeaders ==
    { HeaderSet("content-type", c) \cup HeaderSet("accept", a) :
        c \in ContentTypes, a \in Accepts }

\* request.headers.get(name, "")
HeaderGet(headers, name) ==
    IF \E h \in headers : h[1] = name
    THEN (CHOOSE h \in headers : h[1] = name)[2]
    ELSE <<>>

\* needle in value
Contains(needle, value) == \E i \in 1..Len(value) : value[i] = needle

\* The operations the schema knows, by their query text.
Queries == {"{ hello }", "{ fail }", "{ teapot }",
            "mutation { create }", "subscription { tick }"}

ParamQueries == {"{ hello }", "mutation { create }"}

ValidJson == "{\"id\": 1}"
MalformedJson == "{\"id\": "

\* A dict with the given optional entries.
Dict(query, variables) ==
    [k \in (IF query = Absent THEN {} ELSE {"query"})
            \cup (IF variables = Absent THEN {} ELSE {"variables"})
       |-> IF k = "query" THEN query ELSE variables]

\* request.query_params: the empty dict stands for None (no query string).
QueryParams ==
    { Dict(q, v) : q \in ParamQueries \cup {Absent},
                   v \in {Absent, ValidJson, MalformedJson} }

\* request.raw_body, by what json.loads makes of it.
RawBodies ==
    { [type |-> "malformed", value |-> Dict(Absent, Absent)],
      [type |-> "list", value |-> Dict(Absent, Absent)] }
    \cup { [type |-> "dict", value |-> Dict(q, Absent)] : q \in Queries \cup {Absent} }

Requests ==
    [method : Methods, headers : RequestHeaders,
     query_params : QueryParams, raw_body : RawBodies]

NoRequest ==
    [method |-> Absent, headers |-> {}, query_params |-> Dict(Absent, Absent),
     raw_body |-> [type |-> "malformed", value |-> Dict(Absent, Absent)]]

----------------------------------------------------------------------------
(* Collaborators: chalice and the rest of strawberry                       *)

Returned(v) == [raised |-> "none", value |-> v]
Raised(e) == [raised |-> e, value |-> Dict(Absent, Absent)]

JsonNull == [type |-> "null", value |-> Dict(Absent, Absent)]

\* chalice Request.json_body: json.loads of the raw body when the content type
\* starts with application/json, BadRequestError when that fails.
json_body(req) ==
    LET ct == HeaderGet(req.headers, "content-type") IN
    IF Len(ct) > 0 /\ ct[1] = "application/json"
    THEN IF req.raw_body.type = "malformed"
         THEN [raised |-> "BadRequestError", value |-> JsonNull]
         ELSE [raised |-> "none", value |-> req.raw_body]
    ELSE [raised |-> "none", value |-> JsonNull]

\* json.loads on the texts a variables parameter takes here.
JsonLoads(text) ==
    IF text = ValidJson THEN Returned("{id: 1}") ELSE Raised("JSONDecodeError")

\* strawberry.http.parse_query_params: the variables entry is JSON text.
parse_query_params(params) ==
    IF "variables" \in DOMAIN params
    THEN LET v == JsonLoads(params["variables"]) IN
         IF v.raised # "none" THEN Raised(v.raised)
         ELSE Returned([k \in DOMAIN params |->
                          IF k = "variables" THEN v.value ELSE params[k]])
    ELSE Returned(params)

NoRequestData == [query |-> Absent, variables |-> Absent, operation_name |-> Absent]

\* strawberry.http.parse_request_data
parse_request_data(data) ==
    IF "query" \notin DOMAIN data
    THEN [raised |-> "MissingQueryError", value |-> NoRequestData]
    ELSE [raised |-> "none",
          value |-> [query |-> data["query"],
                     variables |-> IF "variables" \in DOMAIN data
                                   THEN data["variables"] ELSE Absent,
                     operation_name |-> Absent]]

OperationTypes == {"QUERY", "MUTATION", "SUBSCRIPTION"}

\* OperationType.from_http
from_http(method) ==
    IF method = "GET" THEN {"QUERY"}
    ELSE IF method = "POST" THEN OperationTypes
    ELSE {}

\* InvalidOperationTypeError.as_http_error_reason
as_http_error_reason(operation_type, method) ==
    (CASE operation_type = "QUERY" -> "queries"
       [] operation_type = "MUTATION" -> "mutations"
       [] OTHER -> "subscriptions")
    \o " are not allowed when using " \o method

\* TemporalResponse(): status_code 200, no headers.
TemporalResponse == [status_code |-> 200, headers |-> {}]

\* The schema: for each operation its kind, its outcome, and what its
\* resolvers do to context["response"] (status codes in the order set).
Schema ==
    [q \in Queries |->
       CASE q = "{ hello }" ->
              [kind |-> "QUERY", data |-> "hello", errors |-> <<>>,
               status_writes |-> <<>>, header_writes |-> {}]
         [] q = "{ fail }" ->
              [kind |-> "QUERY", data |-> "null", errors |-> <<"resolver failed">>,
               status_writes |-> <<>>, header_writes |-> {}]
         [] q = "{ teapot }" ->
              [kind |-> "QUERY", data |-> "tea", errors |-> <<>>,
               status_writes |-> <<404, 418>>, header_writes |-> {}]
         [] q = "mutation { create }" ->
              [kind |-> "MUTATION", data |-> "created", errors |-> <<>>,
               status_writes |-> <<201>>,
               header_writes |-> {<<"location", "/items/1">>}]
         [] OTHER ->
              [kind |-> "SUBSCRIPTION", data |-> "null",
               errors |-> <<"subscriptions need an async execution">>,
               status_writes |-> <<>>, header_writes |-> {}]]

\* self._schema is a reference to the schema object the application built.
SchemaRef == "schema"
Schemas == [s \in {SchemaRef} |-> Schema]

NoResult == [data |-> "null", errors |-> <<>>]

\* The placeholder after the resolvers' writes.
Resolved(placeholder, op) ==
    [status_code |-> IF op.status_writes = <<>> THEN placeholder.status_code
                     ELSE op.status_writes[Len(op.status_writes)],
     headers |-> placeholder.headers \cup op.header_writes]

\* schema.execute_sync: InvalidOperationTypeError for an operation whose kind is
\* not allowed, before anything runs; otherwise the resolvers run and may
\* write to context["response"].
execute_sync(sch, query, context, allowed_operation_types) ==
    LET op == Schemas[sch][query] IN
    IF op.kind \notin allowed_operation_types
    THEN [raised |-> "InvalidOperationTypeError", operation_type |-> op.kind,
          result |-> NoResult, ran |-> Absent, response |-> context.response]
    ELSE [raised |-> "none", operation_type |-> op.kind,
          result |-> [data |-> op.data, errors |-> op.errors],
          ran |-> query, response |-> Resolved(context.response, op)]

\* strawberry.http.process_result: errors only when there are some.
process_result(result) ==
    IF result.errors = <<>>
    THEN [data |-> result.data]
    ELSE [data |-> result.data, errors |-> Len(result.errors)]

\* render_graphiql_page()
GraphiQLPage == "<html>GraphiQL</html>"

----------------------------------------------------------------------------
(* GraphQLView                                                             *)

\* chalice Response(body, status_code, headers): no headers means none.  A str
\* body is written [text |-> s] so that every body is a function on strings.
Response(body, status_code, headers) ==
    [body |-> body, status_code |-> status_code, headers |-> headers]

NoResponse == Response([none |-> "none"], 0, {})

NoCall ==
    [called |-> FALSE, query |-> Absent, variables |-> Absent,
     operation_name |-> Absent, allowed_operation_types |-> {}]

NoTemporal == [status_code |-> 0, headers |-> {}]

\* Faulty variant: the page is offered whether or not graphiql is on.
should_render_graphiql_unflagged(flag, req) ==
    \E supported_header \in {"text/html", "*/*"} :
        Contains(supported_header, HeaderGet(req.headers, "accept"))

\* GraphQLView.should_render_graphiql
should_render_graphiql(flag, req) ==
    IF ~flag THEN FALSE
    ELSE \E supported_header \in {"text/html", "*/*"} :
            Contains(supported_header, HeaderGet(req.headers, "accept"))

\* Faulty variant: the status code is not handed on to Response, which
\* then has its default of 200.
error_response_default_status(message, error_code, http_status_code) ==
    Response([Code |-> error_code, Message |-> message], 200, {})

\* GraphQLView.error_response, called without headers
error_response(message, error_code, http_status_code) ==
    Response([Code |-> error_code, Message |-> message], http_status_code, {})

\* GraphQLView.get_context
get_context(req, placeholder) == [request |-> req, response |-> placeholder]

\* Faulty variant: PUT is let through.
MethodSupportedWithPut(method) == method \in {"POST", "GET", "PUT"}

\* method not in {"POST", "GET"}
MethodSupported(method) == method \in {"POST", "GET"}

\* method == "GET" and request.query_params
HasQueryParams(req) == req.method = "GET" /\ DOMAIN req.query_params # {}

\* Faulty variant: the query parameters of a GET are looked at before the
\* content type.
IsJsonRequestAfterParams(req) ==
    /\ ~HasQueryParams(req)
    /\ Contains("application/json", HeaderGet(req.headers, "content-type"))

\* "application/json" in request.headers.get("content-type", "")
IsJsonRequest(req) ==
    Contains("application/json", HeaderGet(req.headers, "content-type"))

\* method == "GET" and self.should_render_graphiql(self.graphiql, request)
WantsGraphiQL(req) == req.method = "GET" /\ should_render_graphiql(graphiql, req)

\* isinstance(data, dict)
IsDict(json) == json.type = "dict"

\* Faulty variants: a try statement without its except clause.
ParamsHandlersNone == {}
RequestDataHandlersNone == {}

\* The except clauses of the four try statements.
BodyHandlers == {"BadRequestError"}
ParamsHandlers == {"JSONDecodeError"}
RequestDataHandlers == {"MissingQueryError"}
ExecuteHandlers == {"InvalidOperationTypeError"}

\* Faulty variant: allow_queries_via_get is not consulted.
AllowedOperationTypesByMethod(method) == from_http(method)

\* OperationType.from_http(method), less QUERY for a GET when queries via GET
\* are switched off.
AllowedOperationTypes(method) ==
    IF ~allow_queries_via_get /\ method = "GET"
    THEN from_http(method) \ {"QUERY"}
    ELSE from_http(method)

\* Faulty variant: the placeholder of the previous call is used again.
StaleContext(req) ==
    get_context(req, IF temporal = NoTemporal THEN TemporalResponse ELSE temporal)

\* context = self.get_context(request, response=TemporalResponse())
NewContext(req) == get_context(req, TemporalResponse)

\* Faulty variant: the placeholder is not looked at.
StatusOfDefault(context) == 200

\* status_code = 200, replaced by the placeholder's when the context has one
StatusOf(context) ==
    IF "response" \in DOMAIN context THEN context.response.status_code ELSE 200

\* return Response(body=http_result, status_code=status_code)
ResultResponse(http_result, context) ==
    Response(http_result, StatusOf(context), {})

\* The end of a call: a return, or an exception that nothing caught.
Return(resp, at, source, call, ran, placeholder) ==
    [response |-> resp, raised |-> "none", branch |-> at, data_source |-> source,
     engine_call |-> call, executed |-> ran, temporal |-> placeholder]

Propagate(exception, at, source, call, placeholder) ==
    [response |-> NoResponse, raised |-> exception, branch |-> at,
     data_source |-> source, engine_call |-> call, executed |-> Absent,
     temporal |-> placeholder]

Early(resp, at) == Return(resp, at, "none", NoCall, Absent, NoTemporal)

\* execute_request from `request_data = parse_request_data(data)` on.
Execute(req, data, source) ==
    LET parsed == parse_request_data(data) IN
    IF parsed.raised \in RequestDataHandlers
    THEN Return(error_response("No GraphQL query found in the request",
                               "BadRequestError", 400),
                "missing_query", source, NoCall, Absent, NoTemporal)
    ELSE IF parsed.raised # "none"
    THEN Propagate(parsed.raised, "parse_request_data", source, NoCall, NoTemporal)
    ELSE
    LET request_data == parsed.value
        allowed_operation_types == AllowedOperationTypes(req.method)
        context == NewContext(req)
        call == [called |-> TRUE, query |-> request_data.query,
                 variables |-> request_data.variables,
                 operation_name |-> request_data.operation_name,
                 allowed_operation_types |-> allowed_operation_types]
        out == execute_sync(schema, request_data.query, context,
                            allowed_operation_types)
        after == [context EXCEPT !.response = out.response]
    IN  IF out.raised \in ExecuteHandlers
        THEN Return(error_response(
                        as_http_error_reason(out.operation_type, req.method),
                        "BadRequestError", 400),
                    "invalid_operation_type", source, call, out.ran, after.response)
        ELSE IF out.raised # "none"
        THEN Propagate(out.raised, "execute_sync", source, call, after.response)
        ELSE Return(ResultResponse(process_result(out.result), after),
                    "result", source, call, out.ran, after.response)

\* execute_request up to the choice of `data`.
Handle(req) ==
    IF ~MethodSupported(req.method)
    THEN Early(error_response(
                   "Unsupported method, must be of request type POST or GET",
                   "MethodNotAllowedError", 405),
               "method_not_allowed")
    ELSE IF IsJsonRequest(req)
    THEN LET body == json_body(req) IN
         IF body.raised \in BodyHandlers
         THEN Early(error_response("Unable to parse request body as JSON",
                                   "BadRequestError", 400),
                    "body_not_json")
         ELSE IF body.raised # "none"
         THEN Propagate(body.raised, "json_body", "none", NoCall, NoTemporal)
         ELSE IF ~IsDict(body.value)
         THEN Early(error_response(
                        "Provide a valid graphql query in the body of your request",
                        "BadRequestError", 400),
                    "body_not_dict")
         ELSE Execute(req, body.value.value, "body")
    ELSE IF HasQueryParams(req)
    THEN LET params == parse_query_params(req.query_params) IN
         IF params.raised \in ParamsHandlers
         THEN Early(error_response("Unable to parse request body as JSON",
                                   "BadRequestError", 400),
                    "params_not_json")
         ELSE IF params.raised # "none"
         THEN Propagate(params.raised, "parse_query_params", "none", NoCall,
                        NoTemporal)
         ELSE Execute(req, params.value, "query_params")
    ELSE IF WantsGraphiQL(req)
    THEN Early(Response([text |-> GraphiQLPage],
                        200, {<<"content-type", "text/html">>}),
               "graphiql")
    ELSE Early(error_response("Not found", "NotFoundError", 404), "not_found")

Finish(req, out) ==
    /\ request' = req
    /\ response' = out.response
    /\ raised' = out.raised
    /\ branch' = out.branch
    /\ data_source' = out.data_source
    /\ engine_call' = out.engine_call
    /\ executed' = out.executed
    /\ temporal' = out.temporal
    /\ UNCHANGED config

\* GraphQLView.execute_request
execute_request(req) ==
    /\ LET out == Handle(req) IN Finish(req, out)
    /\ UNCHANGED first

\* GraphQLView.execute_request, the adapter's first call being kept for
\* comparison with the later ones.
execute_request_observed(req) ==
    /\ LET out == Handle(req) IN Finish(req, out)
    /\ first' = IF first.made
                THEN [first EXCEPT !.status_set_since =
                                      @ \/ temporal'.status_code \notin {0, 200}]
                ELSE [made |-> TRUE, request |-> req, response |-> response',
                      status_set_since |-> FALSE]

\* GraphQLView.__init__
Init ==
    /\ graphiql \in BOOLEAN
    /\ allow_queries_via_get \in BOOLEAN
    /\ schema = SchemaRef
    /\ request = NoRequest
    /\ response = NoResponse
    /\ raised = "none"
    /\ branch = "constructed"
    /\ data_source = "none"
    /\ engine_call = NoCall
    /\ executed = Absent
    /\ temporal = NoTemporal
    /\ first = [made |-> FALSE, request |-> NoRequest, response |-> NoResponse,
                status_set_since |-> FALSE]

Next == \E req \in Requests : execute_request(req)

Spec == Init /\ [][Next]_vars

\* Sequences of calls, over the requests that carry one source of data.
SeqRequests ==
    { r \in Requests :
        \/ /\ r.headers = HeaderSet("content-type", <<"application/json", "; charset=utf-8">>)
           /\ r.query_params = Dict(Absent, Absent)
           /\ r.raw_body.type = "dict"
        \/ /\ r.headers = {}
           /\ r.method = "GET"
           /\ r.raw_body.type = "malformed" }

NextSeq == \E req \in SeqRequests : execute_request_observed(req)

SpecSeq == Init /\ [][NextSeq]_vars

----------------------------------------------------------------------------
(* What the claims speak of, read off the request and the response.        *)

Called == branch # "constructed"

HasToken(name, token) ==
    \E h \in request.headers :
        h[1] = name /\ \E i \in DOMAIN h[2] : h[2][i] = token

GetOrPost == request.method \in {"GET", "POST"}
JsonContentType == HasToken("content-type", "application/json")
AcceptsHtml == HasToken("accept", "text/html") \/ HasToken("accept", "*/*")
GetWithParams == request.method = "GET" /\ DOMAIN request.query_params # {}
EngineInvoked == engine_call.called

IsErrorBody == DOMAIN response.body = {"Code", "Message"}
IsError(code, status) ==
    /\ IsErrorBody
    /\ response.body.Code = code
    /\ response.status_code = status

IsExplorerPage ==
    /\ DOMAIN response.body = {"text"}
    /\ response.body.text = GraphiQLPage
    /\ response.status_code = 200
    /\ response.headers = {<<"content-type", "text/html">>}

BadBody == JsonContentType /\ request.raw_body.type \in {"malformed", "list"}

MalformedParam ==
    /\ request.method = "GET"
    /\ "variables" \in DOMAIN request.query_params
    /\ request.query_params["variables"] = MalformedJson

NoQueryText ==
    \/ /\ JsonContentType
       /\ request.raw_body.type = "dict"
       /\ "query" \notin DOMAIN request.raw_body.value
    \/ /\ ~JsonContentType
       /\ GetWithParams
       /\ ~MalformedParam
       /\ "query" \notin DOMAIN request.query_params

Permitted ==
    IF request.method = "POST" THEN {"QUERY", "MUTATION", "SUBSCRIPTION"}
    ELSE IF request.method = "GET" /\ allow_queries_via_get THEN {"QUERY"}
    ELSE {}

LastWrite(op) ==
    IF op.status_writes = <<>> THEN 200 ELSE op.status_writes[Len(op.status_writes)]

----------------------------------------------------------------------------
\* C1: a request whose method is neither GET nor POST gets status 405 with a
\* body {Code: "MethodNotAllowedError", Message: ...}, whatever its content
\* type, accept header, query parameters, body and the two flags are, and the
\* engine is not invoked.
C1_MethodNotAllowed ==
    (Called /\ ~GetOrPost) =>
        /\ IsError("MethodNotAllowedError", 405)
        /\ ~EngineInvoked

\* A PUT that would have run a query had it been a POST.
C1_Witness ==
    /\ request.method = "PUT"
    /\ JsonContentType
    /\ request.raw_body.type = "dict"
    /\ "query" \in DOMAIN request.raw_body.value
    /\ response.status_code = 405

\* C2 as stated: for a GET or POST, a malformed or non-mapping body under a JSON
\* content type, a GET whose query-string parameter holds malformed JSON, and a
\* parsed body with no query text each give 400 BadRequestError without the
\* engine being invoked; the engine is only invoked with a query text.
C2_AsStated ==
    /\ (Called /\ GetOrPost /\ (BadBody \/ MalformedParam \/ NoQueryText)) =>
            (IsError("BadRequestError", 400) /\ ~EngineInvoked)
    /\ EngineInvoked => engine_call.query \in Queries

\* C2, amended: the malformed query-string parameter gives 400 when the
\* content type is not JSON (with a JSON content type the parameters are not
\* read at all); the other cases as stated.
C2_BadInput400 ==
    /\ (Called /\ GetOrPost
          /\ (BadBody \/ (~JsonContentType /\ MalformedParam) \/ NoQueryText)) =>
            (IsError("BadRequestError", 400) /\ ~EngineInvoked)
    /\ EngineInvoked => engine_call.query \in Queries

\* A GET without a JSON content type whose variables parameter is malformed.
C2_Witness ==
    /\ ~JsonContentType
    /\ MalformedParam
    /\ "query" \in DOMAIN request.query_params
    /\ response.status_code = 400
    /\ ~EngineInvoked

\* C3: a GET or POST without a JSON content type that is not a GET with query
\* parameters gets the explorer page (200, text/html) exactly when it is a GET
\* whose accept header holds text/html or */* and graphiql is on, and 404
\* NotFoundError otherwise; the engine is invoked in neither case, and the
\* explorer page is the only 200 given without invoking the engine.
C3_ExplorerOrNotFound ==
    /\ (Called /\ GetOrPost /\ ~JsonContentType /\ ~GetWithParams) =>
          /\ ~EngineInvoked
          /\ IF request.method = "GET" /\ AcceptsHtml /\ graphiql
             THEN IsExplorerPage
             ELSE IsError("NotFoundError", 404)
    /\ (Called /\ ~EngineInvoked /\ response.status_code = 200) => IsExplorerPage

\* A GET asking for */* that is served the page.
C3_Witness ==
    /\ request.method = "GET"
    /\ HasToken("accept", "*/*")
    /\ ~JsonContentType
    /\ IsExplorerPage

\* C4: the engine is given POST -> all three kinds, GET -> {QUERY} when
\* allow_queries_via_get holds and nothing when it does not; an operation whose
\* kind is not permitted gets 400 BadRequestError with the reason naming the
\* method, and is not executed.
C4_PermittedKinds ==
    EngineInvoked =>
        /\ engine_call.allowed_operation_types = Permitted
        /\ Schema[engine_call.query].kind \notin Permitted =>
              /\ IsError("BadRequestError", 400)
              /\ response.body.Message =
                    as_http_error_reason(Schema[engine_call.query].kind,
                                         request.method)
              /\ executed = Absent
              /\ temporal = TemporalResponse

\* A query sent by GET to an adapter that does not allow queries via GET.
C4_Witness ==
    /\ EngineInvoked
    /\ request.method = "GET"
    /\ ~allow_queries_via_get
    /\ Schema[engine_call.query].kind = "QUERY"
    /\ response.status_code = 400
    /\ response.body.Message = "queries are not allowed when using GET"

\* C5: when the engine executes the operation, the response's status code is
\* the placeholder's at the end of execution: 200 if no resolver set it,
\* otherwise the value last set; the body is the serialized outcome, and errors
\* in the outcome leave the status code alone.
C5_StatusFromPlaceholder ==
    executed # Absent =>
        LET op == Schema[executed] IN
        /\ response.status_code = temporal.status_code
        /\ response.status_code = LastWrite(op)
        /\ "data" \in DOMAIN response.body
        /\ response.body.data = op.data
        /\ ("errors" \in DOMAIN response.body) = (op.errors # <<>>)
        /\ (op.errors # <<>> /\ op.status_writes = <<>>) => response.status_code = 200

\* A resolver set 404 and then 418: the response has 418.
C5_Witness ==
    /\ executed = "{ teapot }"
    /\ response.status_code = 418

\* C6: a header a resolver set on the placeholder during execution is among
\* the headers of the response execute_request returns.
C6_HeadersReachResponse ==
    executed # Absent => temporal.headers \subseteq response.headers

\* C7: every call of execute_request returns a response; no failure of body
\* parsing, parameter parsing, request-data extraction or execution leaves it
\* as an exception, each is turned into a structured error response.
C7_AlwaysReturns ==
    Called =>
        /\ raised = "none"
        /\ response # NoResponse
        /\ response.status_code # 0
        /\ (executed = Absent /\ ~IsExplorerPage) =>
              (IsErrorBody /\ response.status_code \in {400, 404, 405})

\* Malformed JSON in the variables parameter, answered rather than raised.
C7_Witness ==
    /\ branch = "params_not_json"
    /\ raised = "none"
    /\ IsErrorBody

\* C8: every error response has a body of exactly Code and Message and a
\* status in {400, 404, 405}, paired 405/MethodNotAllowedError,
\* 404/NotFoundError, 400/BadRequestError; no error branch returns a body of
\* data/errors.
C8_ErrorShape ==
    (Called /\ (branch \notin {"graphiql", "result"}
                \/ "Code" \in DOMAIN response.body
                \/ "Message" \in DOMAIN response.body)) =>
        /\ IsErrorBody
        /\ <<response.status_code, response.body.Code>> \in
              { <<405, "MethodNotAllowedError">>,
                <<404, "NotFoundError">>,
                <<400, "BadRequestError">> }

\* The 404 of a POST that has no JSON content type.
C8_Witness ==
    /\ branch = "not_found"
    /\ request.method = "POST"
    /\ IsError("NotFoundError", 404)

\* C9: no call changes graphiql, allow_queries_via_get or the schema
\* reference; a request is answered as it was when it was the adapter's first
\* call, whatever calls came in between; and a response whose operation set no
\* status code has 200, whatever earlier operations set.
C9_NothingRetained ==
    /\ [][config' = config]_vars
    /\ []((first.made /\ request = first.request) => response = first.response)
    /\ []((executed # Absent /\ Schema[executed].status_writes = <<>>) =>
              response.status_code = 200)

\* The first request comes again after one that set a status code.
C9_Witness ==
    /\ first.made
    /\ first.status_set_since
    /\ request = first.request
    /\ executed = "{ hello }"
    /\ response.status_code = 200
    /\ first.response.status_code = 200

\* C10: the branches are tried in the order method, JSON content type, GET
\* query parameters, explorer page, 404.  A GET or POST with a JSON content
\* type is answered from its body: as if it had no query parameters, and never
\* with the explorer page; a GET with query parameters never gets the
\* explorer page; a method that is not allowed is refused before anything else.
C10_BranchOrder ==
    Called =>
        /\ ~GetOrPost => branch = "method_not_allowed"
        /\ (GetOrPost /\ JsonContentType) =>
              /\ ~IsExplorerPage
              /\ branch \in {"body_not_json", "body_not_dict", "missing_query",
                             "invalid_operation_type", "result"}
              /\ data_source \in {"none", "body"}
              /\ EngineInvoked =>
                    /\ engine_call.query = request.raw_body.value["query"]
                    /\ engine_call.variables = Absent
              /\ response =
                    Handle([request EXCEPT !.query_params = Dict(Absent, Absent)]).response
        /\ GetWithParams => ~IsExplorerPage
        /\ (GetWithParams /\ ~JsonContentType) =>
              branch \in {"params_not_json", "missing_query",
                          "invalid_operation_type", "result"}

\* A GET with a JSON content type, an accept header asking for HTML, graphiql
\* on and query parameters naming another operation: answered from the body.
C10_Witness ==
    /\ request.method = "GET"
    /\ JsonContentType
    /\ HasToken("accept", "text/html")
    /\ graphiql
    /\ "query" \in DOMAIN request.query_params
    /\ request.query_params["query"] = "mutation { create }"
    /\ executed = "{ hello }"
    /\ response.status_code = 200

====
